---- MODULE Spec2Model ----
(***************************************************************************)
(* A model of the rules2lint pipeline: the three LLM stages (filter,       *)
(* refine, extract), the template registry, the parallel orchestrator and  *)
(* the aggregator.                                                         *)
(*                                                                         *)
(* Text is modelled as a sequence of tokens: a token is one character of   *)
(* variable text (a term, a rule) or one literal piece of a template.      *)
(* JSON values that the code handles by type carry a type tag.             *)
(***************************************************************************)
EXTENDS Integers, Sequences, FiniteSets, TLC

VARIABLES
    agg_pc,            \* aggregate_eslint_configs: "idle" | "start" | "done" | "raised"
    all_flag_configs,  \* the list of (severity, config) pairs handed to the aggregator
    agg_result,        \* what aggregate_eslint_configs returned
    rp_pc,             \* one call of a rendering function: "idle" | "render" | "process" | "done"
    rp_args,           \* the arguments of that call
    rp_result,         \* what the call returned (or that it raised)
    llm_pc,            \* one stage call: "idle" | "start" | "done"
    llm_stage,         \* "filter" | "refine" | "extract"
    llm_input,         \* raw_lines (filter) or <<rule_text>> (refine, extract)
    gateway_response,  \* what client.chat.completions.create did for this call
    llm_result,        \* what the stage function returned (or that it raised)
    par_pc,            \* run_parallel_rule_processing: "idle" | "submit" | "collect" | "returned" | "raised"
    refined_rules,     \* the rules handed to run_parallel_rule_processing
    futures,           \* one record per submitted task
    num_workers,       \* max_workers of the ThreadPoolExecutor
    completed,         \* indexes of finished futures, in completion order
    finished_first,    \* the futures already finished when as_completed was called
    collected,         \* indexes of the futures the as_completed loop has consumed, in order
    par_result,        \* the accumulator all_flag_configs of run_parallel_rule_processing
    main_pc,           \* main(): "idle" | "setup" | "read" | "filter" | "refine" | "parallel" |
                       \*   "aggregate" | "finished" | "exit_..." (an early return)
    raw_rules_lines,   \* main(): the lines read from the rules file
    lintable_rules,    \* main(): first list returned by llm_filter_rules
    filtered_out_lines,\* main(): second list returned by llm_filter_rules
    untranslated_rules,\* main(): rules the refine loop could not use
    refine_log,        \* history: one entry per iteration of the refine loop
    calls,             \* history: the gateway calls issued, in order
    output             \* what write_eslint_config_file was given

aggVars == <<agg_pc, all_flag_configs, agg_result>>
rpVars == <<rp_pc, rp_args, rp_result>>
llmVars == <<llm_pc, llm_stage, llm_input, gateway_response, llm_result>>
parVars == <<par_pc, refined_rules, futures, num_workers, completed, finished_first,
            collected, par_result>>
mainVars == <<main_pc, raw_rules_lines, lintable_rules, filtered_out_lines,
             untranslated_rules, refine_log, calls, output>>
vars == <<aggVars, rpVars, llmVars, parVars, mainVars>>

---------------------------------------------------------------------------
(* Bounds *)

MaxPairs == 3      \* longest list of pairs handed to the aggregator
MaxTasks == 3      \* most refined rules handed to the orchestrator
MaxRefined == 2    \* most refined rules a whole run of main builds

---------------------------------------------------------------------------
(* Generic helpers *)

Range(s) == {s[i] : i \in 1..Len(s)}

SeqsUpTo(S, n) == UNION {[1..k -> S] : k \in 0..n}

\* how many elements of s equal x
Count(s, x) == Cardinality({i \in 1..Len(s) : s[i] = x})

ListPermutations(s) ==
    {[i \in 1..Len(s) |-> s[p[i]]] :
        p \in {q \in [1..Len(s) -> 1..Len(s)] : \A i, j \in 1..Len(s) : q[i] = q[j] => i = j}}

---------------------------------------------------------------------------
(* Tagged JSON values *)

Str(s)  == [type |-> "str", val |-> s]
Num     == [type |-> "num", val |-> <<>>]
None    == [type |-> "none", val |-> <<>>]

\* Python truthiness of a tagged value
Truthy(v) ==
    CASE v.type = "str" -> v.val # <<>>
      [] v.type = "num" -> TRUE
      [] OTHER -> FALSE

---------------------------------------------------------------------------
(* str.replace and str.capitalize on token sequences *)

RECURSIVE Replace(_, _, _)
Replace(s, ch, rep) ==
    IF s = <<>> THEN <<>>
    ELSE (IF Head(s) = ch THEN rep ELSE <<Head(s)>>) \o Replace(Tail(s), ch, rep)

Upper(c) == IF c = "t" THEN "T" ELSE c
Lower(c) == IF c = "T" THEN "t" ELSE c

capitalize(s) ==
    IF s = <<>> THEN <<>>
    ELSE <<Upper(Head(s))>> \o [i \in 1..(Len(s) - 1) |-> Lower(s[i + 1])]

BACKSLASH == "\\"
SQUOTE == "'"
DQUOTE == "\""

---------------------------------------------------------------------------
(* config.py: the template registry *)

Contexts == {"Identifier", "Literal", "Operator", "Keyword", "Property", "Import", "Unknown"}

Dict(selector, message) == [type |-> "dict", selector |-> selector, message |-> message]
NoConfig == [type |-> "none", selector |-> <<>>, message |-> <<>>]

KEYWORD_TEMPLATES(context, kw, rule) ==
    CASE context = "Identifier" ->
           Dict(<<"Identifier[name='">> \o kw \o <<"']">>,
                <<"Usage of identifier '">> \o kw \o <<"' is restricted by rule: ">> \o rule)
      [] context = "Literal" ->
           Dict(<<"Literal[value='">> \o kw \o <<"']">>,
                <<"Usage of literal '">> \o kw \o <<"' is restricted by rule: ">> \o rule)
      [] context = "Operator" ->
           Dict(<<":matches(BinaryExpression, LogicalExpression)[operator='">> \o kw \o <<"']">>,
                <<"Usage of operator '">> \o kw \o <<"' is restricted by rule: ">> \o rule)
      [] context = "Keyword" ->
           Dict(capitalize(kw) \o <<"Statement">>,
                <<"Usage of keyword '">> \o kw \o <<"' is restricted by rule: ">> \o rule)
      [] context = "Property" ->
           Dict(<<"MemberExpression[property.name='">> \o kw \o <<"']">>,
                <<"Usage of property '">> \o kw \o <<"' is restricted by rule: ">> \o rule)
      [] context = "Import" ->
           Dict(<<"ImportDeclaration[source.value='">> \o kw \o <<"']">>,
                <<"Import from '">> \o kw \o <<"' is restricted by rule: ">> \o rule)
      [] OTHER ->
           Dict(<<":matches(Identifier[name='">> \o kw \o <<"'], Literal[value='">> \o kw \o <<"'])">>,
                <<"Usage of '">> \o kw \o <<"' is restricted by rule: ">> \o rule
                    \o <<" (context unknown)">>)

---------------------------------------------------------------------------
(* rule_processing.py: generate_eslint_config_object *)

js_escape(s) ==
    Replace(Replace(Replace(s, BACKSLASH, <<BACKSLASH, BACKSLASH>>),
                    SQUOTE, <<BACKSLASH, SQUOTE>>),
            DQUOTE, <<BACKSLASH, DQUOTE>>)

selector_escape(s) == Replace(s, SQUOTE, <<BACKSLASH, SQUOTE>>)

\* Mutant: the registry is indexed, so an unregistered context raises KeyError.
generate_eslint_config_object_Indexed(term, context, rule_text) ==
    IF term.type # "str" \/ context \notin Contexts
    THEN [raised |-> TRUE, value |-> NoConfig]
    ELSE [raised |-> FALSE,
          value  |-> KEYWORD_TEMPLATES(context, selector_escape(term.val),
                                       js_escape(rule_text))]

\* term is a tagged value, rule_text a token sequence.  A term that is not a
\* string has no replace method: the call raises before the try block.
generate_eslint_config_object(term, context, rule_text) ==
    IF term.type # "str"
    THEN [raised |-> TRUE, value |-> NoConfig]
    ELSE [raised |-> FALSE,
          value  |-> KEYWORD_TEMPLATES(
                         IF context \in Contexts THEN context ELSE "Unknown",
                         selector_escape(term.val),
                         js_escape(rule_text))]

---------------------------------------------------------------------------
(* rule_processing.py: aggregate_eslint_configs *)

Severities == {"warn", "error"}

Pair(severity, config) == [severity |-> severity, config |-> config]

\* Mutant: the selector is never added to seen_selectors.
AggIterate_NoMarkSeen(acc, pair) ==
    IF acc.raised THEN acc
    ELSE IF pair.config.type # "dict" THEN [acc EXCEPT !.raised = TRUE]
    ELSE LET selector == pair.config.selector IN
         IF selector # <<>> /\ selector \notin acc.seen_selectors
         THEN [acc EXCEPT
                 !.combined_syntax_configs = Append(@, pair.config),
                 !.highest_severity = IF pair.severity = "error" THEN "error" ELSE @]
         ELSE acc

\* Mutant: duplicates are recognised by their message instead of their selector.
AggIterate_KeyedByMessage(acc, pair) ==
    IF acc.raised THEN acc
    ELSE IF pair.config.type # "dict" THEN [acc EXCEPT !.raised = TRUE]
    ELSE LET selector == pair.config.selector IN
         IF selector # <<>> /\ pair.config.message \notin acc.seen_selectors
         THEN [acc EXCEPT
                 !.combined_syntax_configs = Append(@, pair.config),
                 !.seen_selectors = @ \cup {pair.config.message},
                 !.highest_severity = IF pair.severity = "error" THEN "error" ELSE @]
         ELSE acc

\* Mutant: the severity of every dict pair counts, appended or not.
AggIterate_SeverityOfEveryPair(acc, pair) ==
    IF acc.raised THEN acc
    ELSE IF pair.config.type # "dict" THEN [acc EXCEPT !.raised = TRUE]
    ELSE LET selector == pair.config.selector
             severity == IF pair.severity = "error" THEN "error" ELSE acc.highest_severity
         IN  IF selector # <<>> /\ selector \notin acc.seen_selectors
             THEN [acc EXCEPT
                     !.combined_syntax_configs = Append(@, pair.config),
                     !.seen_selectors = @ \cup {selector},
                     !.highest_severity = severity]
             ELSE [acc EXCEPT !.highest_severity = severity]

\* Mutant: a new config is put in front of the output instead of behind it.
AggIterate_Prepend(acc, pair) ==
    IF acc.raised THEN acc
    ELSE IF pair.config.type # "dict" THEN [acc EXCEPT !.raised = TRUE]
    ELSE LET selector == pair.config.selector IN
         IF selector # <<>> /\ selector \notin acc.seen_selectors
         THEN [acc EXCEPT
                 !.combined_syntax_configs = <<pair.config>> \o @,
                 !.seen_selectors = @ \cup {selector},
                 !.highest_severity = IF pair.severity = "error" THEN "error" ELSE @]
         ELSE acc

\* One iteration of the loop over all_flag_configs.  acc holds the loop's
\* locals; config.get on a value that is not a dict raises AttributeError.
\* A dict without a selector and a dict with an empty selector are both
\* falsy in the test and are both written with selector <<>>.
AggIterate(acc, pair) ==
    IF acc.raised THEN acc
    ELSE IF pair.config.type # "dict" THEN [acc EXCEPT !.raised = TRUE]
    ELSE LET selector == pair.config.selector IN
         IF selector # <<>> /\ selector \notin acc.seen_selectors
         THEN [acc EXCEPT
                 !.combined_syntax_configs = Append(@, pair.config),
                 !.seen_selectors = @ \cup {selector},
                 !.highest_severity = IF pair.severity = "error" THEN "error" ELSE @]
         ELSE acc

RECURSIVE AggLoop(_, _)
AggLoop(acc, pairs) ==
    IF pairs = <<>> THEN acc ELSE AggLoop(AggIterate(acc, Head(pairs)), Tail(pairs))

AggStart ==
    [raised |-> FALSE, combined_syntax_configs |-> <<>>,
     highest_severity |-> "warn", seen_selectors |-> {}]

\* final_rules_object is the dict {} or {"no-restricted-syntax": [severity] + options}
aggregate_eslint_configs(pairs) ==
    LET acc == AggLoop(AggStart, pairs)
        combined == acc.combined_syntax_configs
    IN  [raised |-> acc.raised,
         final_rules_object |->
             IF combined # <<>>
             THEN [keys |-> {"no-restricted-syntax"},
                   severity |-> acc.highest_severity, options |-> combined]
             ELSE [keys |-> {}, severity |-> "", options |-> <<>>],
         highest_severity |-> acc.highest_severity,
         rule_count |-> IF combined # <<>> THEN Len(combined) ELSE 0]

NoAggResult ==
    [raised |-> FALSE,
     final_rules_object |-> [keys |-> {}, severity |-> "", options |-> <<>>],
     highest_severity |-> "", rule_count |-> 0]

\* the patterns of a result: the options that follow the severity
Patterns(result) == result.final_rules_object.options

\* The aggregator's inputs: pairs whose config a template rendered.
AggTerms == {Str(<<"t">>), Str(<<"T">>)}
AggContexts == {"Identifier", "Keyword"}
AggRuleTexts == {<<"r">>, <<"q">>}
AggConfigs ==
    {generate_eslint_config_object(t, c, r).value :
        t \in AggTerms, c \in AggContexts, r \in AggRuleTexts}
AggPairs == {Pair(s, c) : s \in Severities, c \in AggConfigs}

Aggregate ==
    /\ agg_pc = "start"
    /\ agg_result' = aggregate_eslint_configs(all_flag_configs)
    /\ agg_pc' = IF agg_result'.raised THEN "raised" ELSE "done"
    /\ UNCHANGED <<all_flag_configs, llmVars, parVars, mainVars, rpVars>>

---------------------------------------------------------------------------
(* Idle values of the components a specification does not exercise *)

AggIdle ==
    /\ agg_pc = "idle"
    /\ all_flag_configs = <<>>
    /\ agg_result = NoAggResult

RpIdle ==
    /\ rp_pc = "idle"
    /\ rp_args = <<>>
    /\ rp_result = <<>>

LlmIdle ==
    /\ llm_pc = "idle"
    /\ llm_stage = "filter"
    /\ llm_input = <<>>
    /\ gateway_response = <<>>
    /\ llm_result = <<>>

ParIdle ==
    /\ par_pc = "idle"
    /\ refined_rules = <<>>
    /\ futures = <<>>
    /\ num_workers = 0
    /\ completed = <<>>
    /\ finished_first = {}
    /\ collected = <<>>
    /\ par_result = <<>>

NoOutput ==
    [written |-> FALSE, final_rules_object |-> NoAggResult.final_rules_object,
     highest_severity |-> "", rule_count |-> 0, processed_count |-> 0,
     untranslated_rules |-> <<>>]

MainIdle ==
    /\ main_pc = "idle"
    /\ raw_rules_lines = <<>>
    /\ lintable_rules = <<>>
    /\ filtered_out_lines = <<>>
    /\ untranslated_rules = <<>>
    /\ refine_log = <<>>
    /\ calls = <<>>
    /\ output = NoOutput

---------------------------------------------------------------------------
(* The aggregator applied to every list of rendered pairs *)

InitAgg ==
    /\ agg_pc = "start"
    /\ all_flag_configs \in SeqsUpTo(AggPairs, MaxPairs)
    /\ agg_result = NoAggResult
    /\ RpIdle
    /\ LlmIdle
    /\ ParIdle
    /\ MainIdle

NextAgg == Aggregate

SpecAgg == InitAgg /\ [][NextAgg]_vars

---------------------------------------------------------------------------
(* Claims about aggregate_eslint_configs, checked under SpecAgg *)

\* the indexes of the pairs that are the first with their selector
FirstIndexes(pairs) ==
    {i \in 1..Len(pairs) :
        \A j \in 1..(i - 1) : pairs[j].config.selector # pairs[i].config.selector}

\* the configs at those indexes, in input order
FirstOccurrences(pairs) ==
    LET keep == FirstIndexes(pairs)
        Kth(k) == CHOOSE i \in keep : Cardinality({j \in keep : j < i}) = k - 1
    IN  [k \in 1..Cardinality(keep) |-> pairs[Kth(k)].config]

SelectorSet(configs) == {configs[i].selector : i \in 1..Len(configs)}

\* C1: the overall severity is "error" if and only if some input pair has
\* severity "error", a pair with a duplicate pattern included.
C1_SeverityErrorIffAnyErrorPair ==
    agg_pc = "done" =>
        (agg_result.highest_severity = "error"
            <=> \E i \in 1..Len(all_flag_configs) : all_flag_configs[i].severity = "error")

\* C2: the returned patterns are the first occurrence of each distinct
\* selector, in input order, with the first-seen message; no two share a
\* selector; the returned count is the number of patterns.
C2_FirstOccurrenceDedup ==
    agg_pc = "done" =>
        LET out == Patterns(agg_result) IN
        /\ out = FirstOccurrences(all_flag_configs)
        /\ \A i, j \in 1..Len(out) : out[i].selector = out[j].selector => i = j
        /\ agg_result.rule_count = Len(out)

\* a later pair repeats an earlier selector with another message, and two
\* patterns are kept
C2_Witness ==
    /\ agg_pc = "done"
    /\ Len(Patterns(agg_result)) = 2
    /\ \E i, j \in 1..Len(all_flag_configs) :
          /\ i < j
          /\ all_flag_configs[i].config.selector = all_flag_configs[j].config.selector
          /\ all_flag_configs[i].config.message # all_flag_configs[j].config.message

\* the output of an aggregation, each pattern paired with the overall severity
Rewrap(result) ==
    [i \in 1..Len(Patterns(result)) |-> Pair(result.highest_severity, Patterns(result)[i])]

\* C9: aggregating the re-wrapped output again returns the same patterns and
\* the same overall severity.
C9_AggregateIdempotent ==
    agg_pc = "done" =>
        LET again == aggregate_eslint_configs(Rewrap(agg_result)) IN
        /\ ~again.raised
        /\ Patterns(again) = Patterns(agg_result)
        /\ again.highest_severity = agg_result.highest_severity

\* an input with a duplicate selector whose output has two patterns and
\* severity "error"
C9_Witness ==
    /\ agg_pc = "done"
    /\ Len(all_flag_configs) = 3
    /\ Len(Patterns(agg_result)) = 2
    /\ agg_result.highest_severity = "error"

\* C10: every permutation of the input list returns the same set of
\* selectors, the same count and the same overall severity.
C10_OrderInsensitive ==
    agg_pc = "done" =>
        \A p \in ListPermutations(all_flag_configs) :
            LET r == aggregate_eslint_configs(p) IN
            /\ SelectorSet(Patterns(r)) = SelectorSet(Patterns(agg_result))
            /\ r.rule_count = agg_result.rule_count
            /\ r.highest_severity = agg_result.highest_severity

---------------------------------------------------------------------------
(* The LLM gateway: what one client.chat.completions.create call, followed  *)
(* by json.loads of the first choice's content, can do                      *)

List(s) == [type |-> "list", val |-> s]
Null == [type |-> "null", val |-> <<>>]
\* JSON true: a value that is truthy and cannot be iterated
JsonTrue == [type |-> "true", val |-> <<>>]

\* dict.get(key, default) on a dict written as a function from its keys
Get(d, k, default) == IF k \in DOMAIN d THEN d[k] ELSE default

\* Python truthiness of a list, null or true
NonEmpty(v) == v.type = "true" \/ (v.type = "list" /\ v.val # <<>>)

\* A parsed body: a JSON object (isdict, with its members in d) or another
\* JSON value.
JsonObject(d) == [isdict |-> TRUE, d |-> d]
NotAnObject == [isdict |-> FALSE, d |-> <<>>]

\* exc: the exception class raised on the way to the parsed body ("none" when
\* the body parsed).  choices: what getattr(response, 'choices', ...) finds
\* afterwards: the name response is "unbound" when create itself raised, the
\* attribute is "missing", or the list is "empty" or "nonempty".
Parsed(body) == [exc |-> "none", choices |-> "nonempty", body |-> body]
Failed(exc, choices) == [exc |-> exc, choices |-> choices, body |-> NotAnObject]

GatewayFailures ==
    { Failed("APIConnectionError", "unbound"),   \* transport error
      Failed("APITimeoutError", "unbound"),      \* timeout
      Failed("RuntimeError", "unbound"),         \* unexpected exception in the client
      Failed("AttributeError", "unbound"),       \* the client raises before a response exists
      Failed("JSONDecodeError", "nonempty"),     \* unparseable content
      Failed("IndexError", "empty"),             \* response.choices is []
      Failed("AttributeError", "missing"),       \* the response has no choices
      Failed("AttributeError", "nonempty"),      \* choices[0].message is None
      Failed("TypeError", "nonempty") }          \* message.content is None

\* the classes named by "except (json.JSONDecodeError, IndexError, AttributeError)"
ParseErrors == {"JSONDecodeError", "IndexError", "AttributeError"}

---------------------------------------------------------------------------
(* llm_interactions.py: llm_filter_rules *)

Returned2(a, b) == [raised |-> FALSE, first |-> a, second |-> b]
Raised2 == [raised |-> TRUE, first |-> Null, second |-> Null]

\* Mutant: the fallback returns the two lists the wrong way round.
llm_filter_rules_AllOnFailure(raw_lines, resp) ==
    IF resp.exc # "none" THEN Returned2(List(<<>>), List(raw_lines))
    ELSE IF ~resp.body.isdict THEN Returned2(List(raw_lines), List(<<>>))
    ELSE LET lintable == Get(resp.body.d, "lintable_rules", List(<<>>))
             filtered == Get(resp.body.d, "filtered_out", List(<<>>))
         IN  IF lintable.type # "list"
             THEN Returned2(List(raw_lines), List(<<>>))
             ELSE Returned2(lintable, filtered)

\* Returns (lintable, filtered).  Both except clauses return (raw_lines, []):
\* a failed call, a body that is no dict (result_json.get raises
\* AttributeError) and a lintable value without a length (len raises
\* TypeError in the print) all end there.
llm_filter_rules(raw_lines, resp) ==
    IF resp.exc # "none" THEN Returned2(List(raw_lines), List(<<>>))
    ELSE IF ~resp.body.isdict THEN Returned2(List(raw_lines), List(<<>>))
    ELSE LET lintable == Get(resp.body.d, "lintable_rules", List(<<>>))
             filtered == Get(resp.body.d, "filtered_out", List(<<>>))
         IN  IF lintable.type # "list"
             THEN Returned2(List(raw_lines), List(<<>>))
             ELSE Returned2(lintable, filtered)

---------------------------------------------------------------------------
(* llm_interactions.py: llm_refine_rule *)

\* Mutant: "passed_through" with an empty list is returned as it came.
llm_refine_rule_NoPassThroughFix(rule_text, resp) ==
    IF resp.exc # "none" \/ ~resp.body.isdict
    THEN Returned2("passed_through", List(<<rule_text>>))
    ELSE LET outcome == Get(resp.body.d, "outcome", "untranslatable")
             refined_list == Get(resp.body.d, "refined_rules", List(<<>>))
         IN  CASE outcome = "translated" /\ ~NonEmpty(refined_list) ->
                    Returned2("untranslatable", refined_list)
               [] outcome = "untranslatable" ->
                    Returned2(outcome, List(<<>>))
               [] OTHER ->
                    Returned2(outcome, refined_list)

\* Mutant: the except clause re-raises instead of passing the rule through.
llm_refine_rule_Reraise(rule_text, resp) ==
    IF resp.exc # "none" \/ ~resp.body.isdict
    THEN Raised2
    ELSE LET outcome == Get(resp.body.d, "outcome", "untranslatable")
             refined_list == Get(resp.body.d, "refined_rules", List(<<>>))
         IN  CASE outcome = "passed_through" /\ ~NonEmpty(refined_list) ->
                    Returned2(outcome, List(<<rule_text>>))
               [] outcome = "translated" /\ ~NonEmpty(refined_list) ->
                    Returned2("untranslatable", refined_list)
               [] outcome = "untranslatable" ->
                    Returned2(outcome, List(<<>>))
               [] OTHER ->
                    Returned2(outcome, refined_list)

\* Returns (outcome, refined_list).  Every exception, a body that is no dict
\* included, ends in the except clause: ("passed_through", [rule_text]).
llm_refine_rule(rule_text, resp) ==
    IF resp.exc # "none" \/ ~resp.body.isdict
    THEN Returned2("passed_through", List(<<rule_text>>))
    ELSE LET outcome == Get(resp.body.d, "outcome", "untranslatable")
             refined_list == Get(resp.body.d, "refined_rules", List(<<>>))
         IN  CASE outcome = "passed_through" /\ ~NonEmpty(refined_list) ->
                    Returned2(outcome, List(<<rule_text>>))
               [] outcome = "translated" /\ ~NonEmpty(refined_list) ->
                    Returned2("untranslatable", refined_list)
               [] outcome = "untranslatable" ->
                    Returned2(outcome, List(<<>>))
               [] OTHER ->
                    Returned2(outcome, refined_list)

---------------------------------------------------------------------------
(* llm_interactions.py: llm_extract_flags *)

Returned1(v) == [raised |-> FALSE, value |-> v]
Raised1 == [raised |-> TRUE, value |-> <<>>]

\* Returns the list under "flags", or [].  The first except clause formats
\* getattr(response, 'choices', [None])[0] into its message: with response
\* unbound that is an UnboundLocalError and with an empty choices list an
\* IndexError, raised inside the handler and so out of the function.
llm_extract_flags(rule_text, resp) ==
    IF resp.exc = "none"
    THEN IF /\ resp.body.isdict
            /\ "flags" \in DOMAIN resp.body.d
            /\ resp.body.d["flags"].type = "list"
         THEN Returned1(resp.body.d["flags"].val)
         ELSE Returned1(<<>>)
    ELSE IF resp.exc \in ParseErrors
         THEN IF resp.choices \in {"unbound", "empty"} THEN Raised1 ELSE Returned1(<<>>)
         ELSE Returned1(<<>>)

---------------------------------------------------------------------------
(* One call of one stage function on every gateway response *)

LineA == <<"a">>
LineB == <<"b">>
Lines == {LineA, LineB}

\* an object that lacks every key the stages read
OtherObject == JsonObject([note |-> Null])

LintableValues == {List(<<>>), List(<<LineA>>), List(<<LineB, LineA>>), Null}
FilteredValues == {List(<<>>), List(<<LineB>>)}

FilterBodies ==
    {JsonObject([lintable_rules |-> l, filtered_out |-> f]) :
        l \in LintableValues, f \in FilteredValues}
    \cup {JsonObject([lintable_rules |-> l]) : l \in LintableValues}
    \cup {JsonObject([filtered_out |-> f]) : f \in FilteredValues}
    \cup {OtherObject, NotAnObject}

Outcomes == {"passed_through", "translated", "untranslatable", "other"}
RefinedValues == {List(<<>>), List(<<LineA>>), List(<<LineA, LineB>>), Null}

RefineBodies ==
    {JsonObject([outcome |-> o, refined_rules |-> l]) : o \in Outcomes, l \in RefinedValues}
    \cup {JsonObject([outcome |-> o]) : o \in Outcomes}
    \cup {JsonObject([refined_rules |-> l]) : l \in RefinedValues}
    \cup {OtherObject, NotAnObject}

\* the elements of a "flags" list
Flag(term, context, severity) ==
    JsonObject([term |-> term, context |-> context, severity |-> severity])

FlagElements ==
    {Flag(Str(<<"t">>), c, v) : c \in {"Identifier", "Keyword"}, v \in Severities}
    \cup { Flag(Str(<<"T">>), "Keyword", "warn"),
           Flag(Str(<<"t">>), "Bogus", "error"),
           Flag(Str(<<>>), "Identifier", "error"),
           Flag(Num, "Identifier", "error"),
           JsonObject([term |-> Str(<<"t">>)]),
           JsonObject([context |-> "Identifier", severity |-> "error"]),
           NotAnObject }

MaxFlags == 2      \* longest "flags" list of a response

ExtractBodies ==
    {JsonObject([flags |-> List(fl)]) : fl \in SeqsUpTo(FlagElements, MaxFlags)}
    \cup {JsonObject([flags |-> Null]), OtherObject, NotAnObject}

FilterResponses == GatewayFailures \cup {Parsed(b) : b \in FilterBodies}
RefineResponses == GatewayFailures \cup {Parsed(b) : b \in RefineBodies}
ExtractResponses == GatewayFailures \cup {Parsed(b) : b \in ExtractBodies}

MaxLines == 2      \* longest raw_lines list

CallFilter ==
    /\ llm_pc = "start" /\ llm_stage = "filter"
    /\ llm_result' = llm_filter_rules(llm_input, gateway_response)
    /\ llm_pc' = "done"
    /\ UNCHANGED <<llm_stage, llm_input, gateway_response, aggVars, parVars, mainVars, rpVars>>

CallRefine ==
    /\ llm_pc = "start" /\ llm_stage = "refine"
    /\ llm_result' = llm_refine_rule(llm_input[1], gateway_response)
    /\ llm_pc' = "done"
    /\ UNCHANGED <<llm_stage, llm_input, gateway_response, aggVars, parVars, mainVars, rpVars>>

CallExtract ==
    /\ llm_pc = "start" /\ llm_stage = "extract"
    /\ llm_result' = llm_extract_flags(llm_input[1], gateway_response)
    /\ llm_pc' = "done"
    /\ UNCHANGED <<llm_stage, llm_input, gateway_response, aggVars, parVars, mainVars, rpVars>>

InitLLM ==
    /\ llm_pc = "start"
    /\ \/ /\ llm_stage = "filter"
          /\ llm_input \in SeqsUpTo(Lines, MaxLines) \ {<<>>}
          /\ gateway_response \in FilterResponses
       \/ /\ llm_stage = "refine"
          /\ llm_input \in {<<l>> : l \in Lines}
          /\ gateway_response \in RefineResponses
       \/ /\ llm_stage = "extract"
          /\ llm_input \in {<<l>> : l \in Lines}
          /\ gateway_response \in ExtractResponses
    /\ llm_result = <<>>
    /\ AggIdle
    /\ RpIdle
    /\ ParIdle
    /\ MainIdle

NextLLM == CallFilter \/ CallRefine \/ CallExtract

SpecLLM == InitLLM /\ [][NextLLM]_vars

---------------------------------------------------------------------------
(* Claims about the stage functions, checked under SpecLLM *)

Called(stage) == llm_pc = "done" /\ llm_stage = stage

Has(d, k) == k \in DOMAIN d

\* C4: for a response that parsed, llm_refine_rule returns a normalized
\* pair: "passed_through" with an empty list becomes [rule_text];
\* "translated" with an empty list becomes "untranslatable" with an empty
\* list; "untranslatable" returns an empty list whatever list came with it.
C4_RefineNormalized ==
    (Called("refine") /\ gateway_response.exc = "none" /\ gateway_response.body.isdict) =>
        LET d == gateway_response.body.d
            emptyList == Has(d, "refined_rules") /\ d["refined_rules"] = List(<<>>)
        IN  /\ ~llm_result.raised
            /\ (Has(d, "outcome") /\ d["outcome"] = "passed_through" /\ emptyList)
                   => llm_result = Returned2("passed_through", List(<<llm_input[1]>>))
            /\ (Has(d, "outcome") /\ d["outcome"] = "translated" /\ emptyList)
                   => llm_result = Returned2("untranslatable", List(<<>>))
            /\ (Has(d, "outcome") /\ d["outcome"] = "untranslatable")
                   => llm_result = Returned2("untranslatable", List(<<>>))

\* the model answered "untranslatable" together with a non-empty list
C4_Witness ==
    /\ Called("refine")
    /\ gateway_response.exc = "none"
    /\ gateway_response.body.isdict
    /\ Has(gateway_response.body.d, "outcome")
    /\ gateway_response.body.d["outcome"] = "untranslatable"
    /\ Has(gateway_response.body.d, "refined_rules")
    /\ NonEmpty(gateway_response.body.d["refined_rules"])
    /\ llm_result.second = List(<<>>)

\* C6: when the gateway call fails, llm_filter_rules returns the input lines
\* unchanged as the lintable list and an empty filtered_out list, and does
\* not raise.
C6_FilterFailureKeepsAllLines ==
    (Called("filter") /\ gateway_response.exc # "none") =>
        llm_result = Returned2(List(llm_input), List(<<>>))

\* the call failed on a response with an empty choices list, on two lines
C6_Witness ==
    /\ Called("filter")
    /\ gateway_response = Failed("IndexError", "empty")
    /\ llm_input = <<LineA, LineB>>
    /\ llm_result.first = List(<<LineA, LineB>>)

\* C7: for every failure of the gateway call and every parsed result that is
\* not a dict with a list under "flags", llm_extract_flags returns an empty
\* list and does not raise.
C7_ExtractFailureReturnsEmpty ==
    (/\ Called("extract")
     /\ \/ gateway_response.exc # "none"
        \/ ~gateway_response.body.isdict
        \/ ~Has(gateway_response.body.d, "flags")
        \/ gateway_response.body.d["flags"].type # "list")
    => llm_result = Returned1(<<>>)

\* C8: a response that parses but lacks a required key gives the stage
\* result that a gateway failure gives.
C8_MissingKeyIsFailure ==
    (llm_pc = "done" /\ gateway_response.exc = "none" /\ gateway_response.body.isdict) =>
        LET d == gateway_response.body.d IN
        /\ (llm_stage = "filter" /\ (~Has(d, "lintable_rules") \/ ~Has(d, "filtered_out")))
              => llm_result = Returned2(List(llm_input), List(<<>>))
        /\ (llm_stage = "refine" /\ (~Has(d, "outcome") \/ ~Has(d, "refined_rules")))
              => llm_result = Returned2("passed_through", List(<<llm_input[1]>>))
        /\ (llm_stage = "extract" /\ ~Has(d, "flags"))
              => llm_result = Returned1(<<>>)

---------------------------------------------------------------------------
(* rule_processing.py: process_refined_rule *)

\* One iteration of the loop over extracted_flags.  flag.get on an element
\* that is no dict raises; so does rendering a truthy term that is no string.
FlagIterate(acc, flag, rule_text) ==
    IF acc.raised THEN acc
    ELSE IF ~flag.isdict THEN [acc EXCEPT !.raised = TRUE]
    ELSE LET term == Get(flag.d, "term", None)
             context == Get(flag.d, "context", "Unknown")
             severity == Get(flag.d, "severity", "warn")
         IN  IF ~Truthy(term) THEN acc
             ELSE LET rendered == generate_eslint_config_object(term, context, rule_text) IN
                  IF rendered.raised THEN [acc EXCEPT !.raised = TRUE]
                  ELSE IF rendered.value.type = "dict"
                       THEN [acc EXCEPT !.value = Append(@, Pair(severity, rendered.value))]
                       ELSE acc

RECURSIVE FlagLoop(_, _, _)
FlagLoop(acc, flags, rule_text) ==
    IF flags = <<>> THEN acc
    ELSE FlagLoop(FlagIterate(acc, Head(flags), rule_text), Tail(flags), rule_text)

\* Returns the list of (severity, config) pairs of one rule, or raises; the
\* pairs gathered before a raise are lost with the frame.
process_refined_rule(rule_text, resp) ==
    LET extracted_flags == llm_extract_flags(rule_text, resp) IN
    IF extracted_flags.raised THEN Raised1
    ELSE IF extracted_flags.value = <<>> THEN Returned1(<<>>)
    ELSE LET acc == FlagLoop(Returned1(<<>>), extracted_flags.value, rule_text) IN
         IF acc.raised THEN Raised1 ELSE acc

---------------------------------------------------------------------------
(* rule_processing.py: run_parallel_rule_processing *)

MAX_WORKERS == 8

Min(a, b) == IF a < b THEN a ELSE b

\* os.cpu_count() of the host; 0 stands for None, which "or 1" replaces
CpuCounts == {0, 4}

NumWorkers(cpu_count) == Min(MAX_WORKERS, (IF cpu_count = 0 THEN 1 ELSE cpu_count) + 4)

Future(state, raised, result) == [state |-> state, raised |-> raised, result |-> result]

Submitted == 1..Len(futures)
Running == {i \in Submitted : futures[i].state = "running"}
Finished == {i \in Submitted : futures[i].state = "finished"}

\* the gateway answers a task can get
TaskResponses ==
    { Parsed(JsonObject([flags |-> List(<<Flag(Str(<<"t">>), "Identifier", "error")>>)])),
      Parsed(JsonObject([flags |-> List(<<Flag(Str(<<"t">>), "Keyword", "warn"),
                                          Flag(Str(<<"T">>), "Keyword", "error")>>)])),
      Parsed(JsonObject([flags |-> List(<<Flag(Str(<<"t">>), "Identifier", "warn"),
                                          NotAnObject>>)])),
      Parsed(JsonObject([flags |-> List(<<>>)])),
      Failed("APITimeoutError", "unbound"),
      Failed("IndexError", "empty") }

\* the answers drawn in the whole-pipeline specification
MainTaskResponses ==
    { Parsed(JsonObject([flags |-> List(<<Flag(Str(<<"t">>), "Identifier", "error")>>)])),
      Parsed(JsonObject([flags |-> List(<<>>)])),
      Failed("IndexError", "empty") }

TaskResponseChoices == IF main_pc = "idle" THEN TaskResponses ELSE MainTaskResponses

\* executor.submit(process_refined_rule, client, rule_text), one rule per step
Submit ==
    /\ par_pc = "submit"
    /\ Len(futures) < Len(refined_rules)
    /\ futures' = Append(futures, Future("pending", FALSE, <<>>))
    /\ UNCHANGED <<par_pc, refined_rules, num_workers, completed, finished_first,
                   collected, par_result, aggVars, llmVars, mainVars, rpVars>>

Call(stage, input) == [stage |-> stage, input |-> input]

\* Mutant: a thread is started for every queued work item.
TaskStart_Unbounded(i) ==
    /\ par_pc \in {"submit", "collect"}
    /\ i \in Submitted
    /\ futures[i].state = "pending"
    /\ \A j \in 1..(i - 1) : futures[j].state # "pending"
    /\ futures' = [futures EXCEPT ![i].state = "running"]
    /\ calls' = Append(calls, Call("extract", <<refined_rules[i]>>))
    /\ UNCHANGED <<par_pc, refined_rules, num_workers, completed, finished_first,
                   collected, par_result, aggVars, llmVars, main_pc, raw_rules_lines,
                   lintable_rules, filtered_out_lines, untranslated_rules, refine_log,
                   output, rpVars>>

\* a worker thread takes the oldest queued work item and issues the task's
\* gateway call
TaskStart(i) ==
    /\ par_pc \in {"submit", "collect"}
    /\ i \in Submitted
    /\ futures[i].state = "pending"
    /\ \A j \in 1..(i - 1) : futures[j].state # "pending"
    /\ Cardinality(Running) < num_workers
    /\ futures' = [futures EXCEPT ![i].state = "running"]
    /\ calls' = Append(calls, Call("extract", <<refined_rules[i]>>))
    /\ UNCHANGED <<par_pc, refined_rules, num_workers, completed, finished_first,
                   collected, par_result, aggVars, llmVars, main_pc, raw_rules_lines,
                   lintable_rules, filtered_out_lines, untranslated_rules, refine_log,
                   output, rpVars>>

\* the task's gateway call ends with one of the given answers and the task
\* returns or raises
TaskFinishWith(i, responses) ==
    /\ par_pc \in {"submit", "collect"}
    /\ i \in Running
    /\ \E resp \in responses :
          LET r == process_refined_rule(refined_rules[i], resp) IN
          futures' = [futures EXCEPT ![i] = Future("finished", r.raised, r.value)]
    /\ completed' = Append(completed, i)
    /\ UNCHANGED <<par_pc, refined_rules, num_workers, finished_first,
                   collected, par_result, aggVars, llmVars, mainVars, rpVars>>

TaskFinish(i) == TaskFinishWith(i, TaskResponseChoices)

\* as_completed(futures) is called: it first notes the futures already finished
BeginCollect ==
    /\ par_pc = "submit"
    /\ Len(futures) = Len(refined_rules)
    /\ finished_first' = Finished
    /\ par_pc' = "collect"
    /\ UNCHANGED <<refined_rules, futures, num_workers, completed, collected,
                   par_result, aggVars, llmVars, mainVars, rpVars>>

\* The futures as_completed may yield next: those finished before the call in
\* any order (it keeps them in a set), then the others in finishing order.
NextYield ==
    LET done == Range(collected)
        early == finished_first \ done
        later == {k \in 1..Len(completed) : completed[k] \notin done}
    IN  IF early # {} THEN early
        ELSE {completed[k] : k \in {k \in later : \A m \in later : k <= m}}

\* Mutant: the list of a task is put in front of the accumulator.
JoinFuture_Prepend(all, future) ==
    IF future.raised
    THEN [propagated |-> FALSE, all_flag_configs |-> all]
    ELSE [propagated |-> FALSE, all_flag_configs |-> future.result \o all]

\* Mutant: the exception of a failed task leaves the loop.
JoinFuture_Reraise(all, future) ==
    IF future.raised
    THEN [propagated |-> TRUE, all_flag_configs |-> all]
    ELSE [propagated |-> FALSE, all_flag_configs |-> all \o future.result]

\* The body of the as_completed loop: future.result() returns the task's list,
\* which extends all_flag_configs, or raises the task's exception, which the
\* except clause logs.
JoinFuture(all, future) ==
    IF future.raised
    THEN [propagated |-> FALSE, all_flag_configs |-> all]
    ELSE [propagated |-> FALSE, all_flag_configs |-> all \o future.result]

Collect(i) ==
    /\ par_pc = "collect"
    /\ i \in NextYield
    /\ LET j == JoinFuture(par_result, futures[i]) IN
          /\ par_result' = j.all_flag_configs
          /\ par_pc' = IF j.propagated THEN "raised" ELSE "collect"
    /\ collected' = Append(collected, i)
    /\ UNCHANGED <<refined_rules, futures, num_workers, completed, finished_first,
                   aggVars, llmVars, mainVars, rpVars>>

\* Mutant: the loop is left, and the list returned, at the first failed task.
Return_OnFirstError ==
    /\ par_pc = "collect"
    /\ \/ Len(collected) = Len(refined_rules)
       \/ \E k \in 1..Len(collected) : futures[collected[k]].raised
    /\ par_pc' = "returned"
    /\ UNCHANGED <<refined_rules, futures, num_workers, completed, finished_first,
                   collected, par_result, aggVars, llmVars, mainVars, rpVars>>

\* every future was yielded; the with block ends and the list is returned
Return ==
    /\ par_pc = "collect"
    /\ Len(collected) = Len(refined_rules)
    /\ par_pc' = "returned"
    /\ UNCHANGED <<refined_rules, futures, num_workers, completed, finished_first,
                   collected, par_result, aggVars, llmVars, mainVars, rpVars>>

InitPar ==
    /\ par_pc = "submit"
    /\ refined_rules \in {[i \in 1..n |-> IF i % 2 = 1 THEN LineA ELSE LineB] : n \in 1..MaxTasks}
    /\ futures = <<>>
    /\ num_workers \in {NumWorkers(c) : c \in CpuCounts}
    /\ completed = <<>>
    /\ finished_first = {}
    /\ collected = <<>>
    /\ par_result = <<>>
    /\ AggIdle
    /\ RpIdle
    /\ LlmIdle
    /\ MainIdle

NextPar ==
    \/ Submit
    \/ \E i \in 1..MaxTasks : TaskStart(i)
    \/ \E i \in 1..MaxTasks : TaskFinish(i)
    \/ BeginCollect
    \/ \E i \in 1..MaxTasks : Collect(i)
    \/ Return

SpecPar == InitPar /\ [][NextPar]_vars

\* The same, with the scheduling the claim of termination assumes: the main
\* thread and the worker threads keep running and every gateway call returns
\* or fails, so the call never stops while one of its steps can be taken.
\* Termination is checked on lists of at most MaxFairTasks rules.
MaxFairTasks == 2

InitParFair == InitPar /\ Len(refined_rules) <= MaxFairTasks

SpecParFair == InitParFair /\ [][NextPar]_vars /\ WF_vars(NextPar)

---------------------------------------------------------------------------
(* Claims about run_parallel_rule_processing, checked under SpecPar *)

RaisedTasks == {i \in Finished : futures[i].raised}
ReturnedTasks == {i \in Finished : ~futures[i].raised}

\* how often pair p was returned by the tasks of set T
ReturnedCount(T, p) ==
    Cardinality({ik \in UNION {{<<i, k>> : k \in 1..Len(futures[i].result)} : i \in T} :
                    futures[ik[1]].result[ik[2]] = p})

\* C3: when exactly one of the N tasks raises, the call does not raise, and
\* its result holds every pair returned by each of the other N-1 tasks,
\* whatever the order in which the tasks finished.
C3_OneFailureIsIsolated ==
    Cardinality(RaisedTasks) = 1 =>
        /\ par_pc # "raised"
        /\ par_pc = "returned" =>
              /\ Cardinality(ReturnedTasks) = Len(refined_rules) - 1
              /\ \A i \in ReturnedTasks : \A k \in 1..Len(futures[i].result) :
                    LET p == futures[i].result[k] IN
                    Count(par_result, p) >= ReturnedCount(ReturnedTasks, p)

\* three tasks: the one that finished second raised, the other two returned
\* pairs, and the call returned
C3_Witness ==
    /\ par_pc = "returned"
    /\ Len(refined_rules) = 3
    /\ Cardinality(RaisedTasks) = 1
    /\ completed[2] \in RaisedTasks
    /\ \A i \in ReturnedTasks : futures[i].result # <<>>
    /\ collected # <<1, 2, 3>>

---------------------------------------------------------------------------
(* main.py: main *)

\* what read_rules_file can do
ReadOutcomes ==
    {[kind |-> "FileNotFoundError", lines |-> <<>>], [kind |-> "IOError", lines |-> <<>>]}
    \cup {[kind |-> "lines", lines |-> [i \in 1..n |-> IF i % 2 = 1 THEN LineA ELSE LineB]] :
             n \in 0..MaxLines}

\* the gateway answers drawn in the whole-pipeline specification
MainFilterResponses ==
    GatewayFailures
    \cup {Parsed(JsonObject([lintable_rules |-> l, filtered_out |-> List(<<LineB>>)])) :
             l \in {List(<<>>), List(<<LineA>>), List(<<LineB, LineA>>)}}
    \cup {Parsed(JsonObject([filtered_out |-> List(<<LineB>>)])),
          Parsed(JsonObject([lintable_rules |-> Null]))}

MainRefineResponses ==
    GatewayFailures
    \cup {Parsed(JsonObject([outcome |-> "passed_through", refined_rules |-> List(<<>>)])),
          Parsed(JsonObject([outcome |-> "passed_through", refined_rules |-> List(<<LineA, LineB>>)])),
          Parsed(JsonObject([outcome |-> "translated", refined_rules |-> List(<<LineA, LineB>>)])),
          Parsed(JsonObject([outcome |-> "translated", refined_rules |-> List(<<>>)])),
          Parsed(JsonObject([outcome |-> "untranslatable", refined_rules |-> List(<<LineA>>)])),
          Parsed(JsonObject([outcome |-> "other", refined_rules |-> List(<<LineA>>)])),
          Parsed(JsonObject([refined_rules |-> List(<<LineA>>)])),
          Parsed(JsonObject([outcome |-> "translated", refined_rules |-> JsonTrue]))}

\* os.cpu_count() of the host of a whole run
MainCpuCounts == {4}

\* setup_environment: a missing OPENAI_API_KEY raises ValueError, which main
\* reports before it returns
MainSetup ==
    /\ main_pc = "setup"
    /\ \E key_set \in BOOLEAN :
          main_pc' = IF key_set THEN "read" ELSE "exit_no_credential"
    /\ UNCHANGED <<raw_rules_lines, lintable_rules, filtered_out_lines, untranslated_rules,
                   refine_log, calls, output, aggVars, llmVars, parVars, rpVars>>

\* read_rules_file: a missing or unreadable file, or no lines, ends the run
MainRead ==
    /\ main_pc = "read"
    /\ \E r \in ReadOutcomes :
          IF r.kind # "lines"
          THEN /\ main_pc' = "exit_no_file"
               /\ UNCHANGED raw_rules_lines
          ELSE /\ raw_rules_lines' = r.lines
               /\ main_pc' = IF r.lines = <<>> THEN "exit_empty_file" ELSE "filter"
    /\ UNCHANGED <<lintable_rules, filtered_out_lines, untranslated_rules,
                   refine_log, calls, output, aggVars, llmVars, parVars, rpVars>>

\* the call of llm_filter_rules and the two tests that follow it
MainFilter ==
    /\ main_pc = "filter"
    /\ \E resp \in MainFilterResponses :
          LET r == llm_filter_rules(raw_rules_lines, resp) IN
          /\ lintable_rules' = r.first.val
          /\ filtered_out_lines' = r.second.val
          /\ main_pc' = IF r.first.val = <<>> THEN "exit_no_lintable" ELSE "refine"
    /\ calls' = Append(calls, Call("filter", raw_rules_lines))
    /\ UNCHANGED <<raw_rules_lines, untranslated_rules, refine_log, output,
                   refined_rules, par_pc, futures, num_workers, completed, finished_first,
                   collected, par_result, aggVars, llmVars, rpVars>>

LogEntry(rule, failed, outcome, appended, untranslated) ==
    [rule |-> rule, failed |-> failed, outcome |-> outcome,
     appended |-> appended, untranslated |-> untranslated]

\* Mutant: a rule with an unrecognized outcome is not listed as untranslated.
RefineIteration_DropsUnrecognized(rule, resp) ==
    LET r == llm_refine_rule(rule, resp) IN
    IF r.raised
    THEN LogEntry(rule, resp.exc # "none", "", <<>>, TRUE)
    ELSE IF r.first \in {"passed_through", "translated"}
         THEN IF r.second.type = "list"
              THEN LogEntry(rule, resp.exc # "none", r.first, r.second.val, FALSE)
              ELSE LogEntry(rule, resp.exc # "none", r.first, <<>>, TRUE)
         ELSE LogEntry(rule, resp.exc # "none", r.first, <<>>, r.first = "untranslatable")

\* The body of the refine loop for one rule: what it appends to refined_rules
\* and whether it appends the rule to untranslated_rules.  An exception out of
\* llm_refine_rule, or out of refined_rules.extend on a value that is no
\* list, is caught and the rule counted as untranslated.
RefineIteration(rule, resp) ==
    LET r == llm_refine_rule(rule, resp) IN
    IF r.raised
    THEN LogEntry(rule, resp.exc # "none", "", <<>>, TRUE)
    ELSE IF r.first \in {"passed_through", "translated"}
         THEN IF r.second.type = "list"
              THEN LogEntry(rule, resp.exc # "none", r.first, r.second.val, FALSE)
              ELSE LogEntry(rule, resp.exc # "none", r.first, <<>>, TRUE)
         ELSE LogEntry(rule, resp.exc # "none", r.first, <<>>, TRUE)

\* one iteration of "for rule in lintable_rules"
MainRefine ==
    /\ main_pc = "refine"
    /\ Len(refine_log) < Len(lintable_rules)
    /\ LET rule == lintable_rules[Len(refine_log) + 1] IN
       \E resp \in MainRefineResponses :
          LET e == RefineIteration(rule, resp) IN
          /\ Len(refined_rules) + Len(e.appended) <= MaxRefined
          /\ refined_rules' = refined_rules \o e.appended
          /\ untranslated_rules' =
                IF e.untranslated THEN Append(untranslated_rules, rule) ELSE untranslated_rules
          /\ refine_log' = Append(refine_log, e)
          /\ calls' = Append(calls, Call("refine", <<rule>>))
    /\ UNCHANGED <<main_pc, raw_rules_lines, lintable_rules, filtered_out_lines, output,
                   par_pc, futures, num_workers, completed, finished_first,
                   collected, par_result, aggVars, llmVars, rpVars>>

\* Mutant: the fan-out starts as soon as one refined rule exists.
MainStartParallel_Early ==
    /\ main_pc = "refine"
    /\ Len(refine_log) = Len(lintable_rules) \/ refined_rules # <<>>
    /\ IF refined_rules = <<>>
       THEN /\ main_pc' = "exit_no_refined"
            /\ UNCHANGED <<par_pc, num_workers>>
       ELSE /\ main_pc' = "parallel"
            /\ par_pc' = "submit"
            /\ num_workers' \in {NumWorkers(c) : c \in MainCpuCounts}
    /\ UNCHANGED <<raw_rules_lines, lintable_rules, filtered_out_lines, untranslated_rules,
                   refine_log, calls, output, refined_rules, futures, completed,
                   finished_first, collected, par_result, aggVars, llmVars, rpVars>>

\* after the loop: return when nothing is left, else call
\* run_parallel_rule_processing(client, refined_rules)
MainStartParallel ==
    /\ main_pc = "refine"
    /\ Len(refine_log) = Len(lintable_rules)
    /\ IF refined_rules = <<>>
       THEN /\ main_pc' = "exit_no_refined"
            /\ UNCHANGED <<par_pc, num_workers>>
       ELSE /\ main_pc' = "parallel"
            /\ par_pc' = "submit"
            /\ num_workers' \in {NumWorkers(c) : c \in MainCpuCounts}
    /\ UNCHANGED <<raw_rules_lines, lintable_rules, filtered_out_lines, untranslated_rules,
                   refine_log, calls, output, refined_rules, futures, completed,
                   finished_first, collected, par_result, aggVars, llmVars, rpVars>>

\* run_parallel_rule_processing returned: call aggregate_eslint_configs
MainStartAggregate ==
    /\ main_pc = "parallel"
    /\ par_pc = "returned"
    /\ all_flag_configs' = par_result
    /\ agg_pc' = "start"
    /\ main_pc' = "aggregate"
    /\ UNCHANGED <<agg_result, raw_rules_lines, lintable_rules, filtered_out_lines,
                   untranslated_rules, refine_log, calls, output, llmVars, parVars, rpVars>>

\* aggregate_eslint_configs returned: write_eslint_config_file is called with
\* the aggregate, the number of refined rules and the untranslated rules
MainWrite ==
    /\ main_pc = "aggregate"
    /\ agg_pc = "done"
    /\ output' = [written |-> TRUE,
                  final_rules_object |-> agg_result.final_rules_object,
                  highest_severity |-> agg_result.highest_severity,
                  rule_count |-> agg_result.rule_count,
                  processed_count |-> Len(refined_rules),
                  untranslated_rules |-> untranslated_rules]
    /\ main_pc' = "finished"
    /\ UNCHANGED <<raw_rules_lines, lintable_rules, filtered_out_lines, untranslated_rules,
                   refine_log, calls, aggVars, llmVars, parVars, rpVars>>

Init ==
    /\ main_pc = "setup"
    /\ raw_rules_lines = <<>>
    /\ lintable_rules = <<>>
    /\ filtered_out_lines = <<>>
    /\ untranslated_rules = <<>>
    /\ refine_log = <<>>
    /\ calls = <<>>
    /\ output = NoOutput
    /\ AggIdle
    /\ RpIdle
    /\ LlmIdle
    /\ ParIdle

Next ==
    \/ MainSetup
    \/ MainRead
    \/ MainFilter
    \/ MainRefine
    \/ MainStartParallel
    \/ Submit
    \/ \E i \in 1..MaxTasks : TaskStart(i)
    \/ \E i \in 1..MaxTasks : TaskFinish(i)
    \/ BeginCollect
    \/ \E i \in 1..MaxTasks : Collect(i)
    \/ Return
    \/ MainStartAggregate
    \/ Aggregate
    \/ MainWrite

Spec == Init /\ [][Next]_vars

---------------------------------------------------------------------------
(* Claims about main, checked under Spec *)

\* what the first k iterations of the refine loop appended to refined_rules
RECURSIVE AppendedBy(_)
AppendedBy(k) == IF k = 0 THEN <<>> ELSE AppendedBy(k - 1) \o refine_log[k].appended

\* the rules the first k iterations put in untranslated_rules
RECURSIVE UntranslatedBy(_)
UntranslatedBy(k) ==
    IF k = 0 THEN <<>>
    ELSE UntranslatedBy(k - 1)
            \o (IF refine_log[k].untranslated THEN <<refine_log[k].rule>> ELSE <<>>)

\* C5: when the gateway call of llm_refine_rule fails, the function returns
\* ("passed_through", [rule_text]) without raising; main appends the rule,
\* unrefined, to refined_rules and does not list it as untranslatable.
C5_RefineFailurePassesThrough ==
    /\ refined_rules = AppendedBy(Len(refine_log))
    /\ untranslated_rules = UntranslatedBy(Len(refine_log))
    /\ \A k \in 1..Len(refine_log) :
          refine_log[k].failed =>
              /\ refine_log[k].outcome = "passed_through"
              /\ refine_log[k].appended = <<refine_log[k].rule>>
              /\ ~refine_log[k].untranslated
              /\ SubSeq(refined_rules, Len(AppendedBy(k - 1)) + 1, Len(AppendedBy(k)))
                    = <<lintable_rules[k]>>

\* a run in which the refine call of the second rule failed, the first rule
\* was untranslatable, and the output was written
C5_Witness ==
    /\ main_pc = "finished"
    /\ Len(refine_log) = 2
    /\ refine_log[1].untranslated
    /\ refine_log[2].failed
    /\ refined_rules = <<lintable_rules[2]>>
    /\ untranslated_rules = <<lintable_rules[1]>>

\* every rule was submitted and every submitted task has finished and was
\* collected
AllTasksDone ==
    /\ Len(futures) = Len(refined_rules)
    /\ Finished = 1..Len(refined_rules)
    /\ Range(collected) = 1..Len(refined_rules)

\* C11: the call returns only after every submitted task has finished,
\* returned or raised; a failed task neither ends the call early nor cancels
\* a task that has not finished; and when every gateway call ends, the call
\* returns.
C11_WaitsForAllTasks ==
    /\ [](par_pc = "returned" => AllTasksDone)
    /\ [][\A i \in 1..Len(futures) :
             futures[i].state = "finished" => futures'[i] = futures[i]]_vars
    /\ [][\A i \in 1..Len(futures) :
             futures[i].state # "finished" =>
                 /\ i <= Len(futures')
                 /\ futures'[i].state \in {"pending", "running", "finished"}
                 /\ par_pc' \notin {"returned", "raised"}]_vars
    /\ <>(par_pc = "returned")

\* the task that finished first raised and was collected while another task
\* was still running; the call returned later
C11_Witness ==
    /\ par_pc = "returned"
    /\ Len(refined_rules) >= 2
    /\ completed[1] \in RaisedTasks
    /\ finished_first = {completed[1]}
    /\ collected[1] = completed[1]
    /\ completed[2] \in ReturnedTasks
    /\ futures[completed[2]].result # <<>>

---------------------------------------------------------------------------
(* generate_eslint_config_object and process_refined_rule, each applied to
   every input in a bounded set *)

\* longest term and rule text rendered
MaxChars == 2

Chars == {"t", SQUOTE, DQUOTE, BACKSLASH}

Texts == SeqsUpTo(Chars, MaxChars)

\* a term that is a number stands for every term that is no string
RenderTerms == {Str(t) : t \in Texts} \cup {Num}

\* the seven registered tags and three that are not registered
RenderContexts == Contexts \cup {"Comment", "identifier", ""}

\* the "flags" lists process_refined_rule walks
ProcessFlags ==
    { Flag(Str(<<"t">>), "Identifier", "error"),
      Flag(Str(<<"t", SQUOTE>>), "Keyword", "warn"),
      Flag(Str(<<>>), "Identifier", "error"),
      Flag(Num, "Identifier", "warn"),
      JsonObject([context |-> "Literal"]),
      NotAnObject }

ProcessResponses ==
    {Parsed(JsonObject([flags |-> List(f)])) : f \in SeqsUpTo(ProcessFlags, MaxFlags)}
    \cup {Failed("APITimeoutError", "unbound"), Failed("IndexError", "empty")}

RenderArgs(term, context, rule_text) ==
    [term |-> term, context |-> context, rule_text |-> rule_text]

ProcessArgs(rule_text, response) == [rule_text |-> rule_text, response |-> response]

Render ==
    /\ rp_pc = "render"
    /\ rp_result' = generate_eslint_config_object(rp_args.term, rp_args.context,
                                                  rp_args.rule_text)
    /\ rp_pc' = "rendered"
    /\ UNCHANGED <<rp_args, aggVars, llmVars, parVars, mainVars>>

Process ==
    /\ rp_pc = "process"
    /\ rp_result' = process_refined_rule(rp_args.rule_text, rp_args.response)
    /\ rp_pc' = "processed"
    /\ UNCHANGED <<rp_args, aggVars, llmVars, parVars, mainVars>>

InitRender ==
    /\ \/ /\ rp_pc = "render"
          /\ rp_args \in {RenderArgs(t, c, r) :
                             t \in RenderTerms, c \in RenderContexts, r \in Texts}
       \/ /\ rp_pc = "process"
          /\ rp_args \in {ProcessArgs(r, resp) :
                             r \in {LineA, LineB}, resp \in ProcessResponses}
    /\ rp_result = <<>>
    /\ AggIdle
    /\ LlmIdle
    /\ ParIdle
    /\ MainIdle

NextRender == Render \/ Process

SpecRender == InitRender /\ [][NextRender]_vars

---------------------------------------------------------------------------
(* Claims about generate_eslint_config_object and process_refined_rule,
   checked under SpecRender *)

\* C12: a context that is none of the six named tags is rendered with the
\* Unknown template, the result being the one context "Unknown" gives for the
\* same term and rule text, and the call does not raise (terms are strings).
C12_UnregisteredContextIsUnknown ==
    (/\ rp_pc = "rendered"
     /\ rp_args.term.type = "str"
     /\ rp_args.context \notin (Contexts \ {"Unknown"}))
    => /\ ~rp_result.raised
       /\ rp_result.value.type = "dict"
       /\ rp_result = generate_eslint_config_object(rp_args.term, "Unknown",
                                                    rp_args.rule_text)
       /\ rp_result.value =
              KEYWORD_TEMPLATES("Unknown", selector_escape(rp_args.term.val),
                                js_escape(rp_args.rule_text))

\* the tag differs from a registered one by case only, and the term holds a
\* quote
C12_Witness ==
    /\ rp_pc = "rendered"
    /\ rp_args.context = "identifier"
    /\ rp_args.term = Str(<<"t", SQUOTE>>)
    /\ rp_result.value.selector =
           <<":matches(Identifier[name='", "t", BACKSLASH, SQUOTE, "'], Literal[value='",
             "t", BACKSLASH, SQUOTE, "'])">>

\* the flags of a parsed answer
FlagsOf(response) == response.body.d.flags.val

\* a flag whose rendering succeeds: an object with a non-empty string term
Renders(flag) ==
    /\ flag.isdict
    /\ Get(flag.d, "term", None).type = "str"
    /\ Get(flag.d, "term", None).val # <<>>

\* the pair process_refined_rule owes for a flag that renders
PairOf(flag, rule_text) ==
    Pair(Get(flag.d, "severity", "warn"),
         generate_eslint_config_object(flag.d.term, Get(flag.d, "context", "Unknown"),
                                       rule_text).value)

\* the pairs of the flags that render, in the order of the flags
PairsOfRendering(flags, rule_text) ==
    LET kept == SelectSeq(flags, Renders)
    IN  [i \in 1..Len(kept) |-> PairOf(kept[i], rule_text)]

\* C13: when rendering fails for one flag of a rule, a term that is no string
\* included, only that flag is dropped: process_refined_rule does not raise
\* and returns the pairs of every other flag of the rule.
C13_RenderFailureDropsOneFlag ==
    (/\ rp_pc = "processed"
     /\ rp_args.response.exc = "none"
     /\ \A i \in 1..Len(FlagsOf(rp_args.response)) : FlagsOf(rp_args.response)[i].isdict)
    => /\ ~rp_result.raised
       /\ rp_result.value = PairsOfRendering(FlagsOf(rp_args.response), rp_args.rule_text)

---------------------------------------------------------------------------
(* Claims about the patterns of extracted flags, checked under SpecAgg *)

\* the (term, context) of the flags a config can have been rendered from
FlagsRendering(config) ==
    {tc \in AggTerms \X AggContexts :
        \E r \in AggRuleTexts : generate_eslint_config_object(tc[1], tc[2], r).value = config}

ExtractedFlags(pairs) == UNION {FlagsRendering(pairs[i].config) : i \in 1..Len(pairs)}

ExtractedTerms(pairs) == {tc[1] : tc \in ExtractedFlags(pairs)}

\* the selector the registry renders for a term under a context
SelectorOf(tc) == KEYWORD_TEMPLATES(tc[2], selector_escape(tc[1].val), <<>>).selector

\* C14 as stated: the aggregate holds exactly one pattern per distinct
\* extracted term, whatever the contexts of the flags.
C14_OnePatternPerTerm ==
    agg_pc = "done" =>
        Len(Patterns(agg_result)) = Cardinality(ExtractedTerms(all_flag_configs))

\* C14 amended: the aggregate holds exactly one pattern per distinct selector
\* rendered from the term and context of the extracted flags: flags whose
\* selectors are equal give one pattern, flags whose selectors differ give
\* different patterns.
C14_OnePatternPerSelector ==
    agg_pc = "done" =>
        LET out == Patterns(agg_result) IN
        /\ SelectorSet(out) = {SelectorOf(tc) : tc \in ExtractedFlags(all_flag_configs)}
        /\ Len(out) = Cardinality(SelectorSet(out))

\* one term under two contexts gave two patterns, and two terms under the
\* Keyword context gave one
C14_Witness ==
    /\ agg_pc = "done"
    /\ Len(Patterns(agg_result)) = 2
    /\ ExtractedFlags(all_flag_configs) =
           {<<Str(<<"t">>), "Identifier">>, <<Str(<<"t">>), "Keyword">>,
            <<Str(<<"T">>), "Keyword">>}

---------------------------------------------------------------------------
(* Claims about main, checked under Spec *)

\* the raw lines the Filter stage placed in filtered_out
FilteredOutRawLines == Range(raw_rules_lines) \cap Range(filtered_out_lines)

\* the configs an extract task renders for a rule text
ConfigsRenderedFor(rule_text) ==
    UNION {{p.config : p \in Range(process_refined_rule(rule_text, resp).value)} :
              resp \in MainTaskResponses}

\* C15: a raw line the Filter stage placed in filtered_out is passed neither
\* to llm_refine_rule nor to llm_extract_flags and no pattern of the output
\* was rendered for it.
C15_FilteredOutNeverProcessed ==
    \A line \in FilteredOutRawLines :
        /\ \A k \in 1..Len(calls) :
              calls[k].stage \in {"refine", "extract"} => calls[k].input # <<line>>
        /\ Range(output.final_rules_object.options) \cap ConfigsRenderedFor(line) = {}

\* main has returned
MainEnded ==
    main_pc \in {"finished", "exit_no_credential", "exit_no_file", "exit_empty_file",
                 "exit_no_lintable", "exit_no_refined"}

\* C16: main ends without writing the output only for a missing credential or
\* a missing or empty input file, each detected before any stage was called;
\* every other run ends with the output written.
C16_OnlyFatalConditionsSkipOutput ==
    (MainEnded /\ ~output.written) =>
        /\ main_pc \in {"exit_no_credential", "exit_no_file", "exit_empty_file"}
        /\ calls = <<>>

---------------------------------------------------------------------------
(* The aggregator applied to lists that hold malformed elements *)

\* configs that are no well-formed pattern config: None, and a dict without
\* a selector
MalformedConfigs == {NoConfig, Dict(<<>>, <<"m">>)}

WellFormedConfigs ==
    {generate_eslint_config_object(Str(<<"t">>), c, <<"r">>).value : c \in AggContexts}

MixedPairs ==
    {Pair(s, c) : s \in Severities, c \in MalformedConfigs \cup WellFormedConfigs}

InitAggMalformed ==
    /\ agg_pc = "start"
    /\ all_flag_configs \in SeqsUpTo(MixedPairs, MaxPairs)
    /\ agg_result = NoAggResult
    /\ RpIdle
    /\ LlmIdle
    /\ ParIdle
    /\ MainIdle

SpecAggMalformed == InitAggMalformed /\ [][NextAgg]_vars

IsWellFormed(pair) == pair.config.type = "dict" /\ pair.config.selector # <<>>

\* C17: aggregate_eslint_configs does not raise on a malformed element; every
\* element whose config is no well-formed pattern config is skipped and the
\* other elements are aggregated as if it were absent.
C17_MalformedElementsSkipped ==
    agg_pc \in {"done", "raised"} =>
        /\ ~agg_result.raised
        /\ agg_result = aggregate_eslint_configs(SelectSeq(all_flag_configs, IsWellFormed))

---------------------------------------------------------------------------
(* run_parallel_rule_processing with more rules than the pool has workers *)

\* one rule more than the smallest pool the code can build
PoolTasks == NumWorkers(0) + 1

\* every extract call finds no flag
PoolTaskResponses == {Parsed(JsonObject([flags |-> List(<<>>)]))}

InitPool ==
    /\ par_pc = "submit"
    /\ refined_rules = [i \in 1..PoolTasks |-> LineA]
    /\ futures = <<>>
    /\ num_workers = NumWorkers(0)
    /\ completed = <<>>
    /\ finished_first = {}
    /\ collected = <<>>
    /\ par_result = <<>>
    /\ AggIdle
    /\ RpIdle
    /\ LlmIdle
    /\ MainIdle

NextPool ==
    \/ Submit
    \/ \E i \in 1..PoolTasks : TaskStart(i)
    \/ \E i \in 1..PoolTasks : TaskFinishWith(i, PoolTaskResponses)
    \/ BeginCollect
    \/ \E i \in 1..PoolTasks : Collect(i)
    \/ Return

SpecPool == InitPool /\ [][NextPool]_vars

\* C18: at every moment of the call at most min(MAX_WORKERS, cpu_count + 4)
\* extraction tasks are executing, however many rules were submitted.
C18_ConcurrencyBounded ==
    /\ Cardinality(Running) <= num_workers
    /\ num_workers \in {Min(MAX_WORKERS, c + 4) : c \in {1, 4}}

\* the pool is full while a submitted task waits for a worker
C18_Witness ==
    /\ Cardinality(Running) = num_workers
    /\ \E i \in Submitted : futures[i].state = "pending"
    /\ Len(futures) > num_workers

---------------------------------------------------------------------------
(* Claims about the escaping of rendered configs, checked under SpecRender *)

RegisteredContext(context) == IF context \in Contexts THEN context ELSE "Unknown"

\* C19: the rendered config embeds the term in the pattern with only the
\* single quote escaped, and embeds the term and the rule text in the message
\* with backslash, single quote and double quote escaped.
C19_EscapingOfPatternAndMessage ==
    (rp_pc = "rendered" /\ rp_args.term.type = "str") =>
        LET context == RegisteredContext(rp_args.context)
            term == rp_args.term.val
            rule == js_escape(rp_args.rule_text)
        IN  /\ ~rp_result.raised
            /\ rp_result.value.selector =
                   KEYWORD_TEMPLATES(context, selector_escape(term), rule).selector
            /\ rp_result.value.message =
                   KEYWORD_TEMPLATES(context, js_escape(term), rule).message

---------------------------------------------------------------------------
(* Claims about the refine loop of main, checked under Spec *)

\* C20: the number of refined rules a lintable rule contributes follows from
\* the outcome llm_refine_rule returned for it: none when untranslatable,
\* exactly one when passed_through, one or more when translated.
C20_ContributionFollowsOutcome ==
    \A k \in 1..Len(refine_log) :
        LET e == refine_log[k] IN
        /\ e.outcome = "untranslatable" => Len(e.appended) = 0
        /\ e.outcome = "passed_through" => Len(e.appended) = 1
        /\ e.outcome = "translated" => Len(e.appended) >= 1

---------------------------------------------------------------------------
(* Claims about the gateway calls of main, checked under Spec *)

CallsOf(stage) == {k \in 1..Len(calls) : calls[k].stage = stage}

\* C21: the gateway calls of main are ordered by stage.  The one filter call
\* is the first call; the refine calls follow it one at a time in the order
\* of lintable_rules, each finished (its iteration logged) before the next
\* is issued; no extract call is issued before the last refine call finished.
C21_CallsOrderedByStage ==
    /\ CallsOf("filter") \subseteq {1}
    /\ CallsOf("refine") = {k + 1 : k \in 1..Len(refine_log)}
    /\ \A k \in 1..Len(refine_log) :
          /\ calls[k + 1].input = <<lintable_rules[k]>>
          /\ refine_log[k].rule = lintable_rules[k]
    /\ CallsOf("extract") # {} =>
          /\ Len(refine_log) = Len(lintable_rules)
          /\ \A k \in CallsOf("extract") : k > Len(refine_log) + 1

\* two rules were refined, the first by a failed call, and an extract call
\* followed
C21_Witness ==
    /\ Len(refine_log) = 2
    /\ refine_log[1].failed
    /\ ~refine_log[2].failed
    /\ CallsOf("extract") # {}

\* the tasks whose extract call was issued
StartedTasks == {i \in Submitted : futures[i].state # "pending"}

\* one filter call once the filter stage has run, one refine call per
\* iteration of the refine loop, one extract call per started task
OneCallPerInput ==
    /\ Cardinality(CallsOf("filter")) =
           (IF main_pc \in {"setup", "read", "filter", "exit_no_credential",
                            "exit_no_file", "exit_empty_file"} THEN 0 ELSE 1)
    /\ Cardinality(CallsOf("refine")) = Len(refine_log)
    /\ Len(refine_log) <= Len(lintable_rules)
    /\ Cardinality(CallsOf("extract")) = Cardinality(StartedTasks)
    /\ Cardinality(StartedTasks) <= Len(refined_rules)

\* the stage function, given this failure of its one gateway call, returns
\* the stage's safe default
SafeDefaultReturned(call, resp) ==
    CASE call.stage = "filter" ->
           llm_filter_rules(call.input, resp) = Returned2(List(call.input), List(<<>>))
      [] call.stage = "refine" ->
           llm_refine_rule(call.input[1], resp)
               = Returned2("passed_through", List(<<call.input[1]>>))
      [] call.stage = "extract" ->
           llm_extract_flags(call.input[1], resp) = Returned1(<<>>)

\* C22: no gateway call is retried.  A run makes one filter call, at most one
\* refine call per lintable rule and at most one extract call per refined
\* rule, and whichever way a call fails the stage returns its safe default at
\* once.
C22_NoRetrySafeDefault ==
    /\ OneCallPerInput
    /\ \A k \in 1..Len(calls) : \A resp \in GatewayFailures :
          SafeDefaultReturned(calls[k], resp)

---------------------------------------------------------------------------
(* Claims about the severity of the aggregate, checked under SpecAggMalformed *)

\* the pairs the loop appends: well formed, and first with their selector
AppendedIndexes(pairs) ==
    {i \in 1..Len(pairs) :
        /\ IsWellFormed(pairs[i])
        /\ \A j \in 1..(i - 1) : pairs[j].config.selector # pairs[i].config.selector}

---------------------------------------------------------------------------
(* Claims about the accounting of the refine loop, checked under Spec *)

\* main is past the refine loop
RefineLoopDone ==
    main_pc \in {"parallel", "aggregate", "finished", "exit_no_refined"}

\* C24: every iteration of the refine loop either put at least one string
\* in refined_rules or put its rule in untranslated_rules, never both and
\* never neither; refined_rules is the concatenation of the lists of the
\* iterations in order, untranslated_rules holds the rules of the
\* untranslated iterations in order, and after the loop there is one
\* iteration per lintable rule, in the order of lintable_rules.
C24_EveryRuleAccountedOnce ==
    /\ \A k \in 1..Len(refine_log) :
          /\ refine_log[k].untranslated <=> refine_log[k].appended = <<>>
          /\ refine_log[k].rule = lintable_rules[k]
    /\ refined_rules = AppendedBy(Len(refine_log))
    /\ untranslated_rules = UntranslatedBy(Len(refine_log))
    /\ Len(untranslated_rules)
           + Cardinality({k \in 1..Len(refine_log) : refine_log[k].appended # <<>>})
         = Len(refine_log)
    /\ RefineLoopDone => Len(refine_log) = Len(lintable_rules)

\* after the loop: the first rule was lost to an exception in the loop body,
\* the second contributed two refined rules
C24_Witness ==
    /\ RefineLoopDone
    /\ Len(refine_log) = 2
    /\ refine_log[1].outcome = "translated"
    /\ refine_log[1].untranslated
    /\ Len(refine_log[2].appended) = 2
    /\ untranslated_rules = <<lintable_rules[1]>>
    /\ Len(refined_rules) = 2

---------------------------------------------------------------------------
(* Claims about the list run_parallel_rule_processing returns, checked under
   SpecPar *)

\* the lists of the tasks of a sequence of task indexes, one after another
RECURSIVE ConcatResults(_)
ConcatResults(order) ==
    IF order = <<>> THEN <<>>
    ELSE futures[Head(order)].result \o ConcatResults(Tail(order))

\* position of task i in a sequence of task indexes
PositionIn(order, i) == CHOOSE k \in 1..Len(order) : order[k] = i

====
